---- MODULE Spec2Model ----
(***************************************************************************)
(* A model of the propositional-logic engine (Sentence, Symbol, Not, And,  *)
(* Implication) and of the traffic-rule checker TrafficRules built on it.  *)
(*                                                                         *)
(* Python objects are modelled as follows.                                 *)
(*  - A sentence is a record [kind, name, args]: kind is the class name,   *)
(*    name the Symbol's name ("" for the other classes) and args the       *)
(*    children in order (operand; conjuncts; antecedent, consequent).      *)
(*  - A Python str that is scanned character by character (formula         *)
(*    strings) is a sequence of one-character strings.  The two non-ASCII  *)
(*    characters of the source are written NotSign (U+00AC) and AndSign    *)
(*    (U+2227); a variable name is a single alphabetic token.              *)
(*  - The outcome of a call is a record [raised, value]: raised is "none"  *)
(*    when the call returns value, and the exception class otherwise.      *)
(*  - A value stored in a model or scenario is "True", "False", or         *)
(*    "Unboolable" (an object whose truth test raises ValueError).         *)
(***************************************************************************)
EXTENDS Integers, Sequences, FiniteSets, TLC

VARIABLES e1, e2, model, s, op, out, heap, call, scenario

vars == <<e1, e2, model, s, op, out, heap, call, scenario>>

(***************************************************************************)
(* Bounds of the model.                                                    *)
(***************************************************************************)
\* Largest number of nodes (objects) in a sentence tree drawn as an input.
MaxNodes == 4

\* Variable names used by the sentences drawn as inputs.
Names == {"A", "B"}

(***************************************************************************)
(* Outcomes of calls and Python truth values.                              *)
(***************************************************************************)
Returns(v) == [raised |-> "none", value |-> v]

Raises(cls) == [raised |-> cls, value |-> FALSE]

RaisesNoSet(cls) == [raised |-> cls, value |-> {}]

BoolValues == {"True", "False"}

\* bool(v), line 57: the truth test of the stored value.
PyBool(v) ==
    CASE v = "True" -> Returns(TRUE)
      [] v = "False" -> Returns(FALSE)
      [] OTHER -> Raises("ValueError")

(***************************************************************************)
(* The four sentence classes.                                              *)
(***************************************************************************)
Symbol(name) == [kind |-> "Symbol", name |-> name, args |-> <<>>]

Not(operand) == [kind |-> "Not", name |-> "", args |-> <<operand>>]

And(conjuncts) == [kind |-> "And", name |-> "", args |-> conjuncts]

Implication(antecedent, consequent) ==
    [kind |-> "Implication", name |-> "", args |-> <<antecedent, consequent>>]

(***************************************************************************)
(* evaluate                                                                *)
(***************************************************************************)
\* Symbol.evaluate: model[self.name], KeyError turned into Exception.
SymbolEvaluate(name, m) ==
    IF name \in DOMAIN m THEN PyBool(m[name]) ELSE Raises("Exception")

\* Not.evaluate: r is the outcome of operand.evaluate(model).
NotEvaluate(r) ==
    IF r.raised # "none" THEN r ELSE Returns(~r.value)

\* A plausible slip in all(): returning from inside the loop, so that only
\* the first conjunct decides.
allReturnsFirst(rs) ==
    IF Len(rs) = 0 THEN Returns(TRUE) ELSE rs[1]

\* A plausible slip in And.evaluate: all([...]) over a list, which evaluates
\* every conjunct before looking at any of them.
allOfList(rs) ==
    IF \E i \in 1..Len(rs) : rs[i].raised # "none"
    THEN rs[CHOOSE i \in 1..Len(rs) :
                /\ rs[i].raised # "none"
                /\ \A j \in 1..(i - 1) : rs[j].raised = "none"]
    ELSE Returns(\A i \in 1..Len(rs) : rs[i].value)

\* all(generator), lines 114-115: rs[i] is the outcome that evaluating the
\* i-th conjunct would give; the generator is consumed left to right and
\* abandoned at the first conjunct that raises or is false.
RECURSIVE allFrom(_, _)
allFrom(rs, i) ==
    IF i > Len(rs) THEN Returns(TRUE)
    ELSE IF rs[i].raised # "none" THEN rs[i]
    ELSE IF ~rs[i].value THEN Returns(FALSE)
    ELSE allFrom(rs, i + 1)

all(rs) == allFrom(rs, 1)

\* Implication.evaluate: (not a) or c, c evaluated only when a is true.
ImplicationEvaluate(ra, rc) ==
    IF ra.raised # "none" THEN ra
    ELSE IF ~ra.value THEN Returns(TRUE)
    ELSE rc

RECURSIVE evaluate(_, _)
evaluate(e, m) ==
    CASE e.kind = "Symbol" -> SymbolEvaluate(e.name, m)
      [] e.kind = "Not" -> NotEvaluate(evaluate(e.args[1], m))
      [] e.kind = "And" ->
            all([i \in 1..Len(e.args) |-> evaluate(e.args[i], m)])
      [] e.kind = "Implication" ->
            ImplicationEvaluate(evaluate(e.args[1], m), evaluate(e.args[2], m))

(***************************************************************************)
(* symbols                                                                 *)
(***************************************************************************)
SymbolSymbols(name) == Returns({name})

\* set.union(*[...]), line 124: the list is built first (a conjunct that
\* raises ends the call), and set.union with no argument is a TypeError.
AndSymbols(rs) ==
    IF \E i \in 1..Len(rs) : rs[i].raised # "none"
    THEN rs[CHOOSE i \in 1..Len(rs) :
                /\ rs[i].raised # "none"
                /\ \A j \in 1..(i - 1) : rs[j].raised = "none"]
    ELSE IF Len(rs) = 0 THEN RaisesNoSet("TypeError")
    ELSE Returns(UNION {rs[i].value : i \in 1..Len(rs)})

ImplicationSymbols(ra, rc) ==
    IF ra.raised # "none" THEN ra
    ELSE IF rc.raised # "none" THEN rc
    ELSE Returns(ra.value \cup rc.value)

RECURSIVE symbols(_)
symbols(e) ==
    CASE e.kind = "Symbol" -> SymbolSymbols(e.name)
      [] e.kind = "Not" -> symbols(e.args[1])
      [] e.kind = "And" -> AndSymbols([i \in 1..Len(e.args) |-> symbols(e.args[i])])
      [] e.kind = "Implication" ->
            ImplicationSymbols(symbols(e.args[1]), symbols(e.args[2]))

(***************************************************************************)
(* parenthesize and formula                                                *)
(***************************************************************************)
NotSign == "~"

AndSign == "^"

NonAlpha == {"(", ")", " ", "=", ">", NotSign, AndSign}

\* str.isalpha(): non-empty and every character alphabetic.
isalpha(str) ==
    /\ Len(str) > 0
    /\ \A i \in 1..Len(str) : str[i] \notin NonAlpha

\* A plausible slip in balanced: the count is never decremented.
RECURSIVE balancedNoDecrementFrom(_, _, _)
balancedNoDecrementFrom(str, i, count) ==
    IF i > Len(str) THEN count = 0
    ELSE IF str[i] = "(" THEN balancedNoDecrementFrom(str, i + 1, count + 1)
    ELSE IF str[i] = ")" THEN
        IF count <= 0 THEN FALSE ELSE balancedNoDecrementFrom(str, i + 1, count)
    ELSE balancedNoDecrementFrom(str, i + 1, count)

balancedNoDecrement(str) == balancedNoDecrementFrom(str, 1, 0)

\* The loop of balanced, lines 26-34, from position i with the given count.
RECURSIVE balancedFrom(_, _, _)
balancedFrom(str, i, count) ==
    IF i > Len(str) THEN count = 0
    ELSE IF str[i] = "(" THEN balancedFrom(str, i + 1, count + 1)
    ELSE IF str[i] = ")" THEN
        IF count <= 0 THEN FALSE ELSE balancedFrom(str, i + 1, count - 1)
    ELSE balancedFrom(str, i + 1, count)

balanced(str) == balancedFrom(str, 1, 0)

parenthesize(str) ==
    IF \/ Len(str) = 0
       \/ isalpha(str)
       \/ (/\ str[1] = "("
           /\ str[Len(str)] = ")"
           /\ balanced(SubSeq(str, 2, Len(str) - 1)))
    THEN str
    ELSE <<"(">> \o str \o <<")">>

\* sep.join(parts)
RECURSIVE join(_, _)
join(sep, parts) ==
    IF Len(parts) = 0 THEN <<>>
    ELSE IF Len(parts) = 1 THEN parts[1]
    ELSE parts[1] \o sep \o join(sep, Tail(parts))

SymbolFormula(name) == <<name>>

\* f is operand.formula()
NotFormula(f) == <<NotSign>> \o parenthesize(f)

\* A plausible slip in And.formula: no special case for a single conjunct.
AndFormulaAlwaysJoin(fs) ==
    join(<<" ", AndSign, " ">>, [i \in 1..Len(fs) |-> parenthesize(fs[i])])

\* fs[i] is conjuncts[i].formula()
AndFormula(fs) ==
    IF Len(fs) = 1 THEN fs[1]
    ELSE join(<<" ", AndSign, " ">>, [i \in 1..Len(fs) |-> parenthesize(fs[i])])

ImplicationFormula(fa, fc) ==
    parenthesize(fa) \o <<" ", "=", ">", " ">> \o parenthesize(fc)

RECURSIVE formula(_)
formula(e) ==
    CASE e.kind = "Symbol" -> SymbolFormula(e.name)
      [] e.kind = "Not" -> NotFormula(formula(e.args[1]))
      [] e.kind = "And" -> AndFormula([i \in 1..Len(e.args) |-> formula(e.args[i])])
      [] e.kind = "Implication" ->
            ImplicationFormula(formula(e.args[1]), formula(e.args[2]))

(***************************************************************************)
(* Inputs: every sentence tree of at most MaxNodes nodes over Names        *)
(* (And() with no conjunct included: the constructor accepts it), and      *)
(* every total or partial model over Names.                                *)
(***************************************************************************)
RECURSIVE SentencesOfSize(_), ConjunctsOfSize(_)
SentencesOfSize(n) ==
    IF n = 1 THEN {Symbol(x) : x \in Names} \cup {And(<<>>)}
    ELSE {Not(x) : x \in SentencesOfSize(n - 1)}
         \cup {And(cs) : cs \in ConjunctsOfSize(n - 1)}
         \cup UNION {{Implication(a, c) : a \in SentencesOfSize(i),
                                          c \in SentencesOfSize(n - 1 - i)}
                     : i \in 1..(n - 2)}

ConjunctsOfSize(k) ==
    IF k = 0 THEN {<<>>}
    ELSE UNION {{<<x>> \o cs : x \in SentencesOfSize(i),
                               cs \in ConjunctsOfSize(k - i)}
                : i \in 1..k}

Sentences == UNION {SentencesOfSize(n) : n \in 1..MaxNodes}

Models == UNION {[D -> BoolValues] : D \in SUBSET Names}

NoOutcome == [raised |-> "none", value |-> FALSE]

NoCall == [op |-> "none", args |-> <<>>, target |-> 0, result |-> "none"]

EmptyMap == [k \in {} |-> "True"]

\* The sequence xs reordered by the permutation p of its indices.
Permuted(xs, p) == [i \in 1..Len(xs) |-> xs[p[i]]]

(***************************************************************************)
(* SpecEval: one sentence and one model are drawn, and one of evaluate,    *)
(* symbols and formula is applied.                                         *)
(***************************************************************************)
InitEval ==
    /\ e1 \in Sentences
    /\ e2 = e1
    /\ model \in Models
    /\ s = <<>>
    /\ op = "new"
    /\ out = NoOutcome
    /\ heap = <<>>
    /\ call = NoCall
    /\ scenario = EmptyMap

Evaluate ==
    /\ op = "new"
    /\ op' = "evaluate"
    /\ out' = evaluate(e1, model)
    /\ UNCHANGED <<e1, e2, model, s, heap, call, scenario>>

\* e1 is an And; e2 becomes the And of the same conjuncts in another order
\* and both are evaluated against the same model.
EvaluatePermuted ==
    /\ op = "new"
    /\ e1.kind = "And"
    /\ \E p \in Permutations(1..Len(e1.args)) :
          /\ e2' = And(Permuted(e1.args, p))
          /\ out' = [original |-> evaluate(e1, model),
                     permuted |-> evaluate(And(Permuted(e1.args, p)), model)]
    /\ op' = "evaluatePermuted"
    /\ UNCHANGED <<e1, model, s, heap, call, scenario>>

SymbolsOf ==
    /\ op = "new"
    /\ op' = "symbols"
    /\ out' = symbols(e1)
    /\ UNCHANGED <<e1, e2, model, s, heap, call, scenario>>

FormulaOf ==
    /\ op = "new"
    /\ op' = "formula"
    /\ s' = formula(e1)
    /\ UNCHANGED <<e1, e2, model, out, heap, call, scenario>>

NextEval == Evaluate \/ EvaluatePermuted \/ SymbolsOf \/ FormulaOf

SpecEval == InitEval /\ [][NextEval]_vars

(***************************************************************************)
(* Claims about evaluate, symbols and formula (checked under SpecEval).    *)
(***************************************************************************)
\* The variable names at the leaves of a sentence tree.
RECURSIVE Leaves(_)
Leaves(e) ==
    IF e.kind = "Symbol" THEN {e.name}
    ELSE UNION {Leaves(e.args[i]) : i \in 1..Len(e.args)}

\* The left-to-right short-circuit reference evaluator, with the three
\* outcomes "true", "false" and "fails".
RECURSIVE Reference(_, _)
Reference(e, m) ==
    CASE e.kind = "Symbol" ->
            IF e.name \notin DOMAIN m THEN "fails"
            ELSE IF m[e.name] = "True" THEN "true" ELSE "false"
      [] e.kind = "Not" ->
            LET r == Reference(e.args[1], m)
            IN  IF r = "fails" THEN "fails"
                ELSE IF r = "true" THEN "false" ELSE "true"
      [] e.kind = "And" ->
            LET r == [i \in 1..Len(e.args) |-> Reference(e.args[i], m)]
                stop == {i \in 1..Len(e.args) : r[i] # "true"}
            IN  IF stop = {} THEN "true"
                ELSE r[CHOOSE i \in stop : \A j \in stop : i <= j]
      [] e.kind = "Implication" ->
            LET a == Reference(e.args[1], m)
            IN  IF a = "fails" THEN "fails"
                ELSE IF a = "false" THEN "true"
                ELSE Reference(e.args[2], m)

Shown(o) ==
    IF o.raised # "none" THEN "fails"
    ELSE IF o.value THEN "true" ELSE "false"

\* C1: evaluate gives, for every sentence and every total or partial model,
\* the outcome of the left-to-right short-circuit reference evaluator; an
\* And or an Implication whose first child is false returns a boolean even
\* when its second child is unbound.
C1_EvaluateMatchesReference ==
    op = "evaluate" =>
        /\ Shown(out) = Reference(e1, model)
        /\ out.raised \in {"none", "Exception"}
        /\ (/\ e1.kind = "And"
            /\ Len(e1.args) >= 1
            /\ Reference(e1.args[1], model) = "false") => out = Returns(FALSE)
        /\ (/\ e1.kind = "Implication"
            /\ Reference(e1.args[1], model) = "false") => out = Returns(TRUE)

\* And(A, B) evaluated with A false and B unbound has returned False.
C1_Witness ==
    /\ op = "evaluate"
    /\ e1 = And(<<Symbol("A"), Symbol("B")>>)
    /\ DOMAIN model = {"A"}
    /\ model["A"] = "False"
    /\ out = Returns(FALSE)

\* C7: symbols(e) returns, without failing, exactly the set of variable
\* names at the leaves of e, for every sentence that can be constructed.
C7_SymbolsAreTheLeaves ==
    op = "symbols" =>
        /\ out.raised = "none"
        /\ out.value = Leaves(e1)

\* C9 as stated: every permutation of an And's conjuncts evaluates to the
\* same outcome as the original, for every model.
C9_OrderNeverMatters ==
    op = "evaluatePermuted" => out.original = out.permuted

\* C9 as amended: under a model that binds every variable of the And, every
\* permutation returns the same boolean as the original; under any model
\* the two outcomes differ only when one fails and the other returns False.
C9_OrderMattersOnlyForFailure ==
    op = "evaluatePermuted" =>
        /\ Leaves(e1) \subseteq DOMAIN model =>
              /\ out.original.raised = "none"
              /\ out.permuted = out.original
        /\ out.original # out.permuted =>
              \/ /\ out.original.raised # "none"
                 /\ out.permuted = Returns(FALSE)
              \/ /\ out.permuted.raised # "none"
                 /\ out.original = Returns(FALSE)

\* And(A, B) and And(B, A) evaluated under a total model with A false.
C9_Witness ==
    /\ op = "evaluatePermuted"
    /\ e1 = And(<<Symbol("A"), Symbol("B")>>)
    /\ e2 = And(<<Symbol("B"), Symbol("A")>>)
    /\ DOMAIN model = {"A", "B"}
    /\ model["A"] = "False"
    /\ model["B"] = "True"
    /\ out.original = Returns(FALSE)
    /\ out.permuted = Returns(FALSE)

\* parts joined with sep between neighbours, built from the right end.
RECURSIVE Interleaved(_, _)
Interleaved(parts, sep) ==
    IF Len(parts) = 0 THEN <<>>
    ELSE IF Len(parts) = 1 THEN parts[1]
    ELSE Interleaved(SubSeq(parts, 1, Len(parts) - 1), sep)
         \o sep \o parts[Len(parts)]

\* The four rendering rules.
RECURSIVE Rendered(_)
Rendered(e) ==
    CASE e.kind = "Symbol" -> <<e.name>>
      [] e.kind = "Not" -> <<NotSign>> \o parenthesize(Rendered(e.args[1]))
      [] e.kind = "And" ->
            IF Len(e.args) = 1 THEN Rendered(e.args[1])
            ELSE Interleaved([i \in 1..Len(e.args) |->
                                 parenthesize(Rendered(e.args[i]))],
                             <<" ", AndSign, " ">>)
      [] e.kind = "Implication" ->
            parenthesize(Rendered(e.args[1])) \o <<" ", "=", ">", " ">>
                \o parenthesize(Rendered(e.args[2]))

\* C10: formula(e) is the string the four rendering rules produce; a single
\* variable never receives parentheses: Not(A) renders as NotSign A and
\* And(A, B) as A AndSign B.
C10_FormulaFollowsRules ==
    op = "formula" =>
        /\ s = Rendered(e1)
        /\ e1 = Not(Symbol("A")) => s = <<NotSign, "A">>
        /\ e1 = And(<<Symbol("A"), Symbol("B")>>) =>
              s = <<"A", " ", AndSign, " ", "B">>
        /\ (e1.kind = "And" /\ Len(e1.args) = 1) => s = formula(e1.args[1])

\* And(Not(A)), a single compound conjunct, has rendered with no parentheses.
C10_Witness ==
    /\ op = "formula"
    /\ e1 = And(<<Not(Symbol("A"))>>)
    /\ s = <<NotSign, "A">>

(***************************************************************************)
(* __eq__ and __hash__                                                     *)
(***************************************************************************)
\* Largest number of nodes in each of the two sentences that are compared.
MaxPairNodes == 3

\* The per-process seeds of str hashing (PYTHONHASHSEED) that are modelled.
HashSeeds == {0, 1}

\* hash(str): fixed within one process, different from one seed to another.
StrHash(str, seed) ==
    LET code == CASE str = "symbol" -> 11
                  [] str = "not" -> 23
                  [] str = "and" -> 37
                  [] str = "implies" -> 41
                  [] str = "A" -> 53
                  [] str = "B" -> 67
                  [] OTHER -> 79
    IN  (code * (seed + 3) + seed) % 65536

\* hash(tuple): an order-sensitive mix of the hashes of the elements.
RECURSIVE TupleHashFrom(_, _, _)
TupleHashFrom(hs, i, acc) ==
    IF i > Len(hs) THEN acc
    ELSE TupleHashFrom(hs, i + 1, (acc * 31 + hs[i] + 1) % 65536)

TupleHash(hs) == TupleHashFrom(hs, 1, 7)

SymbolHash(name, seed) == TupleHash(<<StrHash("symbol", seed), StrHash(name, seed)>>)

\* h is hash(self.operand)
NotHash(h, seed) == TupleHash(<<StrHash("not", seed), h>>)

\* hs[i] is hash(conjuncts[i])
AndHash(hs, seed) == TupleHash(<<StrHash("and", seed), TupleHash(hs)>>)

ImplicationHash(ha, hc, seed) == TupleHash(<<StrHash("implies", seed), ha, hc>>)

RECURSIVE hash(_, _)
hash(e, seed) ==
    CASE e.kind = "Symbol" -> SymbolHash(e.name, seed)
      [] e.kind = "Not" -> NotHash(hash(e.args[1], seed), seed)
      [] e.kind = "And" ->
            AndHash([i \in 1..Len(e.args) |-> hash(e.args[i], seed)], seed)
      [] e.kind = "Implication" ->
            ImplicationHash(hash(e.args[1], seed), hash(e.args[2], seed), seed)

\* A plausible slip in list comparison: comparing the zipped pairs only, so
\* that a list equals each of its extensions.
ListEqZip(n, k, same) ==
    \A i \in DOMAIN same : same[i]

\* list == list, line 97: n and k are the two lengths and same[i] tells
\* whether the i-th elements are equal (for i up to the shorter length).
ListEq(n, k, same) ==
    /\ n = k
    /\ \A i \in DOMAIN same : same[i]

Shorter(n, k) == IF n <= k THEN n ELSE k

RECURSIVE eq(_, _)
eq(a, b) ==
    CASE a.kind = "Symbol" -> b.kind = "Symbol" /\ a.name = b.name
      [] a.kind = "Not" -> b.kind = "Not" /\ eq(a.args[1], b.args[1])
      [] a.kind = "And" ->
            /\ b.kind = "And"
            /\ ListEq(Len(a.args), Len(b.args),
                      [i \in 1..Shorter(Len(a.args), Len(b.args)) |->
                          eq(a.args[i], b.args[i])])
      [] a.kind = "Implication" ->
            /\ b.kind = "Implication"
            /\ eq(a.args[1], b.args[1])
            /\ eq(a.args[2], b.args[2])

(***************************************************************************)
(* SpecEq: two sentences are drawn and compared, and both are hashed in    *)
(* the same process.                                                       *)
(***************************************************************************)
PairSentences == UNION {SentencesOfSize(n) : n \in 1..MaxPairNodes}

InitEq ==
    /\ e1 \in PairSentences
    /\ e2 \in PairSentences
    /\ model = EmptyMap
    /\ s = <<>>
    /\ op = "new"
    /\ out = NoOutcome
    /\ heap = <<>>
    /\ call = NoCall
    /\ scenario = EmptyMap

Compare ==
    /\ op = "new"
    /\ op' = "compare"
    /\ \E seed \in HashSeeds :
          out' = [eq |-> eq(e1, e2),
                  hash1 |-> hash(e1, seed),
                  hash2 |-> hash(e2, seed)]
    /\ UNCHANGED <<e1, e2, model, s, heap, call, scenario>>

NextEq == Compare

SpecEq == InitEq /\ [][NextEq]_vars

\* Same variant, same name, and the same children in the same order.
RECURSIVE SameTree(_, _)
SameTree(a, b) ==
    /\ a.kind = b.kind
    /\ a.name = b.name
    /\ Len(a.args) = Len(b.args)
    /\ \A i \in 1..Len(a.args) : SameTree(a.args[i], b.args[i])

\* C6: e1 == e2 exactly when the two are the same variant with recursively
\* equal children (the conjuncts of an And compared in order), and equal
\* sentences have equal hashes.
C6_EqIsStructuralAndHashAgrees ==
    op = "compare" =>
        /\ out.eq <=> SameTree(e1, e2)
        /\ out.eq => out.hash1 = out.hash2

\* Two equal two-conjunct Ands have been compared and hashed.
C6_Witness ==
    /\ op = "compare"
    /\ e1 = And(<<Symbol("A"), Symbol("B")>>)
    /\ e2 = e1
    /\ out.eq
    /\ out.hash1 = out.hash2

(***************************************************************************)
(* SpecParen: a string is drawn and parenthesize is applied to it, and     *)
(* then to its own output.                                                 *)
(***************************************************************************)
\* Longest string drawn as an input of parenthesize.
MaxStrLen == 4

Chars == {"A", "(", ")", NotSign}

Strings == UNION {[1..n -> Chars] : n \in 0..MaxStrLen}

InitParen ==
    /\ s \in Strings
    /\ e1 = Symbol("A")
    /\ e2 = Symbol("A")
    /\ model = EmptyMap
    /\ op = "new"
    /\ out = NoOutcome
    /\ heap = <<>>
    /\ call = NoCall
    /\ scenario = EmptyMap

Parenthesize ==
    /\ op = "new"
    /\ op' = "parenthesize"
    /\ out' = [once |-> parenthesize(s), twice |-> parenthesize(parenthesize(s))]
    /\ UNCHANGED <<e1, e2, model, s, heap, call, scenario>>

NextParen == Parenthesize

SpecParen == InitParen /\ [][NextParen]_vars

Count(str, c, k) == Cardinality({i \in 1..k : str[i] = c})

\* Every ")" closes an earlier "(" and every "(" is closed.
WellNested(str) ==
    /\ \A k \in 1..Len(str) : Count(str, ")", k) <= Count(str, "(", k)
    /\ Count(str, ")", Len(str)) = Count(str, "(", Len(str))

\* C8 as stated: parenthesize(parenthesize(s)) = parenthesize(s) for every
\* non-empty s, whether or not its parentheses are balanced.
C8_IdempotentOnEveryString ==
    (op = "parenthesize" /\ Len(s) > 0) => out.twice = out.once

\* C8 as amended: parenthesize(parenthesize(s)) = parenthesize(s) for every
\* non-empty s whose parentheses are balanced.
C8_IdempotentOnBalancedStrings ==
    (op = "parenthesize" /\ Len(s) > 0 /\ WellNested(s)) => out.twice = out.once

\* "()A" has been wrapped once, and the second application added nothing.
C8_Witness ==
    /\ op = "parenthesize"
    /\ s = <<"(", ")", "A">>
    /\ out.once = <<"(", "(", ")", "A", ")">>
    /\ out.twice = out.once

(***************************************************************************)
(* Construction.  The objects constructed so far are kept in heap, in the  *)
(* order of their construction; a reference to an object is its index in   *)
(* heap, and the children of an object (args) are references.  The value 0 *)
(* stands for any Python value that is not a Sentence (a str, None, ...).  *)
(***************************************************************************)
\* Largest number of objects constructed.
MaxObjects == 2

\* Largest number of arguments passed to And(...).
MaxArgs == 2

\* Largest number of conjuncts an And reaches through add.
MaxConjuncts == 2

\* isinstance(v, Sentence)
IsSentence(h, v) == v \in 1..Len(h)

\* Sentence.validate: the exception raised, or "none".
validate(h, v) == IF IsSentence(h, v) THEN "none" ELSE "TypeError"

Built(h, cls) == [heap |-> h, raised |-> cls]

SymbolInit(h, name) == Built(Append(h, Symbol(name)), "none")

NotInit(h, operand) ==
    IF validate(h, operand) # "none" THEN Built(h, validate(h, operand))
    ELSE Built(Append(h, Not(operand)), "none")

AndInit(h, conjuncts) ==
    IF \E i \in 1..Len(conjuncts) : validate(h, conjuncts[i]) # "none"
    THEN Built(h, "TypeError")
    ELSE Built(Append(h, And(conjuncts)), "none")

ImplicationInit(h, antecedent, consequent) ==
    IF validate(h, antecedent) # "none" THEN Built(h, validate(h, antecedent))
    ELSE IF validate(h, consequent) # "none" THEN Built(h, validate(h, consequent))
    ELSE Built(Append(h, Implication(antecedent, consequent)), "none")

\* A plausible slip in And.add: appending before validating.
addThenValidate(h, self, conjunct) ==
    Built([h EXCEPT ![self].args = Append(@, conjunct)], validate(h, conjunct))

\* And.add, lines 110-112.
add(h, self, conjunct) ==
    IF validate(h, conjunct) # "none" THEN Built(h, validate(h, conjunct))
    ELSE Built([h EXCEPT ![self].args = Append(@, conjunct)], "none")

Values(h) == 0..Len(h)

ArgLists(h) == UNION {[1..n -> Values(h)] : n \in 0..MaxArgs}

InitBuild ==
    /\ heap = <<>>
    /\ call = NoCall
    /\ e1 = Symbol("A")
    /\ e2 = Symbol("A")
    /\ model = EmptyMap
    /\ s = <<>>
    /\ op = "new"
    /\ out = NoOutcome
    /\ scenario = EmptyMap

Called(name, args, target, b) ==
    /\ heap' = b.heap
    /\ call' = [op |-> name, args |-> args, target |-> target, result |-> b.raised]
    /\ UNCHANGED <<e1, e2, model, s, op, out, scenario>>

NewSymbol ==
    /\ Len(heap) < MaxObjects
    /\ \E name \in Names : Called("Symbol", <<>>, 0, SymbolInit(heap, name))

NewNot ==
    /\ Len(heap) < MaxObjects
    /\ \E v \in Values(heap) : Called("Not", <<v>>, 0, NotInit(heap, v))

NewAnd ==
    /\ Len(heap) < MaxObjects
    /\ \E vs \in ArgLists(heap) : Called("And", vs, 0, AndInit(heap, vs))

NewImplication ==
    /\ Len(heap) < MaxObjects
    /\ \E a \in Values(heap), c \in Values(heap) :
          Called("Implication", <<a, c>>, 0, ImplicationInit(heap, a, c))

AddConjunct ==
    \E self \in 1..Len(heap), v \in Values(heap) :
        /\ heap[self].kind = "And"
        /\ Len(heap[self].args) < MaxConjuncts
        /\ Called("add", <<v>>, self, add(heap, self, v))

NextBuild == NewSymbol \/ NewNot \/ NewAnd \/ NewImplication \/ AddConjunct

SpecBuild == InitBuild /\ [][NextBuild]_vars

\* The step is a call of a validating constructor or of add.
Validating == call'.op \in {"Not", "And", "Implication", "add"}

SomeNonSentence ==
    \E i \in 1..Len(call'.args) : call'.args[i] \notin 1..Len(heap)

\* C4: Not(x), And(x1..xn), Implication(a, b) and And.add(x) fail with
\* TypeError (the InvalidOperand error) exactly when some child argument is
\* not a sentence; a failed call constructs nothing and leaves every And's
\* conjuncts as they were; a successful constructor yields the new sentence
\* and a successful add appends its argument.
C4_ConstructionValidatesChildren ==
    [][Validating =>
          /\ call'.result = (IF SomeNonSentence THEN "TypeError" ELSE "none")
          /\ SomeNonSentence => heap' = heap
          /\ (~SomeNonSentence /\ call'.op # "add") =>
                heap' = Append(heap, [kind |-> call'.op, name |-> "",
                                      args |-> call'.args])
          /\ (~SomeNonSentence /\ call'.op = "add") =>
                /\ Len(heap') = Len(heap)
                /\ \A i \in 1..Len(heap) :
                      heap'[i] = IF i = call'.target
                                 THEN [heap[i] EXCEPT
                                          !.args = Append(@, call'.args[1])]
                                 ELSE heap[i]
    ]_vars

\* add of a non-sentence to an And that has conjuncts has failed.
C4_Witness ==
    /\ call.op = "add"
    /\ call.args = <<0>>
    /\ call.result = "TypeError"
    /\ heap[call.target].kind = "And"
    /\ Len(heap[call.target].args) = 1

\* C5: every And that exists has at least one conjunct.
C5_NoEmptyAnd ==
    \A i \in 1..Len(heap) : heap[i].kind = "And" => Len(heap[i].args) >= 1

(***************************************************************************)
(* TrafficRules                                                            *)
(***************************************************************************)
\* key_mapping, lines 216-235.
key_mapping ==
    [k \in {"speed_limit", "residential", "highway", "red_light",
            "at_intersection", "vehicle_moving", "signal_change",
            "signal_used", "one_way", "wrong_direction", "stop_sign",
            "complete_stop", "no_parking", "is_parked", "no_overtaking",
            "is_overtaking", "location_a", "location_b"} |->
        CASE k = "speed_limit" -> "SpeedLimit"
          [] k = "residential" -> "Residential"
          [] k = "highway" -> "Highway"
          [] k = "red_light" -> "RedLight"
          [] k = "at_intersection" -> "AtIntersection"
          [] k = "vehicle_moving" -> "VehicleMoving"
          [] k = "signal_change" -> "SignalChange"
          [] k = "signal_used" -> "SignalUsed"
          [] k = "one_way" -> "OneWay"
          [] k = "wrong_direction" -> "WrongDirection"
          [] k = "stop_sign" -> "StopSign"
          [] k = "complete_stop" -> "CompleteStop"
          [] k = "no_parking" -> "NoParking"
          [] k = "is_parked" -> "IsParked"
          [] k = "no_overtaking" -> "NoOvertaking"
          [] k = "is_overtaking" -> "IsOvertaking"
          [] k = "location_a" -> "LocationA"
          [] k = "location_b" -> "LocationB"]

Rule(rule, violation_msg) == [rule |-> rule, violation_msg |-> violation_msg]

\* self.rules after _initialize_rules, lines 184-209.
rules ==
    << Rule(And(<<Symbol("SpeedLimit"), Symbol("Residential")>>),
            "Speed violation in residential area"),
       Rule(And(<<Symbol("SpeedLimit"), Symbol("Highway")>>),
            "Speed violation on highway"),
       Rule(And(<<Symbol("RedLight"), Symbol("AtIntersection"),
                  Symbol("VehicleMoving")>>),
            "Red light violation"),
       Rule(And(<<Symbol("SignalChange"), Not(Symbol("SignalUsed"))>>),
            "Lane change violation"),
       Rule(And(<<Symbol("OneWay"), Symbol("WrongDirection")>>),
            "Wrong way violation"),
       Rule(And(<<Symbol("StopSign"), Not(Symbol("CompleteStop"))>>),
            "Stop sign violation"),
       Rule(And(<<Symbol("NoParking"), Symbol("IsParked")>>),
            "Parking violation"),
       Rule(And(<<Symbol("NoOvertaking"), Symbol("IsOvertaking")>>),
            "Overtaking violation"),
       Rule(And(<<Symbol("LocationA"), Symbol("LocationB")>>),
            "Location inconsistency") >>

\* The dict comprehension of lines 238-242: the known keys renamed, the
\* unknown keys dropped.
TranslatedModel(sc) ==
    LET known == DOMAIN sc \cap DOMAIN key_mapping
    IN  [n \in {key_mapping[k] : k \in known} |->
            sc[CHOOSE k \in known : key_mapping[k] = n]]

\* A plausible slip in the except clause: matching the exact class only.
ExceptExactClass(cls) == cls = "Exception"

\* except Exception, line 249: every exception class modelled here derives
\* from Exception.
ExceptException(cls) == cls \in {"Exception", "TypeError", "ValueError", "KeyError"}

\* A plausible slip in the handler: break instead of continue.
HandlerBreaks(i) == Len(rules) + 1

\* continue, line 250: the index of the rule the loop goes on with.
HandlerContinues(i) == i + 1

\* The loop of lines 245-250 from rule i on, with the violations so far.
RECURSIVE CheckFrom(_, _, _)
CheckFrom(i, violations, m) ==
    IF i > Len(rules) THEN Returns(violations)
    ELSE LET r == evaluate(rules[i].rule, m)
         IN  IF r.raised = "none"
             THEN CheckFrom(i + 1,
                            IF r.value
                            THEN Append(violations, rules[i].violation_msg)
                            ELSE violations,
                            m)
             ELSE IF ExceptException(r.raised)
             THEN CheckFrom(HandlerContinues(i), violations, m)
             ELSE [raised |-> r.raised, value |-> <<>>]

check_violations(sc) == CheckFrom(1, <<>>, TranslatedModel(sc))

(***************************************************************************)
(* SpecCheck: a scenario binding known and unknown keys to booleans is     *)
(* drawn and checked.  SpecCheckAnyValue: the same with values of any      *)
(* kind, those whose truth test raises included.                           *)
(***************************************************************************)
\* Largest number of keys in a scenario.
MaxKeys == 3

ScenarioKeys == DOMAIN key_mapping \cup {"unknown_key"}

RECURSIVE KeySetsUpTo(_)
KeySetsUpTo(n) ==
    IF n = 0 THEN {{}}
    ELSE LET smaller == KeySetsUpTo(n - 1)
         IN  smaller \cup {D \cup {k} : D \in smaller, k \in ScenarioKeys}

Scenarios(values) == UNION {[D -> values] : D \in KeySetsUpTo(MaxKeys)}

InitCheckWith(values) ==
    /\ scenario \in Scenarios(values)
    /\ e1 = Symbol("A")
    /\ e2 = Symbol("A")
    /\ model = EmptyMap
    /\ s = <<>>
    /\ op = "new"
    /\ out = NoOutcome
    /\ heap = <<>>
    /\ call = NoCall

InitCheck == InitCheckWith(BoolValues)

InitCheckAnyValue == InitCheckWith(BoolValues \cup {"Unboolable"})

CheckViolations ==
    /\ op = "new"
    /\ op' = "check_violations"
    /\ model' = TranslatedModel(scenario)
    /\ out' = check_violations(scenario)
    /\ UNCHANGED <<e1, e2, s, heap, call, scenario>>

NextCheck == CheckViolations

SpecCheck == InitCheck /\ [][NextCheck]_vars

SpecCheckAnyValue == InitCheckAnyValue /\ [][NextCheck]_vars

\* The labels of the rules among the first n whose index is in firing, in
\* catalogue order.
RECURSIVE LabelsOf(_, _)
LabelsOf(n, firing) ==
    IF n = 0 THEN <<>>
    ELSE IF n \in firing
         THEN Append(LabelsOf(n - 1, firing), rules[n].violation_msg)
         ELSE LabelsOf(n - 1, firing)

TrueRules ==
    {i \in 1..Len(rules) :
        Reference(rules[i].rule, TranslatedModel(scenario)) = "true"}

\* C2: check_violations returns exactly the labels of the rules that are
\* true of the translated scenario, in catalogue order and each at most
\* once; a rule that fails on an absent variable gives no label and the
\* rules after it are still evaluated.
C2_LabelsOfTheTrueRules ==
    op = "check_violations" =>
        /\ out.raised = "none"
        /\ out.value = LabelsOf(Len(rules), TrueRules)
        /\ \A i, j \in 1..Len(out.value) : out.value[i] = out.value[j] => i = j
        /\ \A i \in 1..Len(rules) :
              Reference(rules[i].rule, model) = "fails" =>
                  \A j \in 1..Len(out.value) : out.value[j] # rules[i].violation_msg

\* The first rules fail on absent variables and the parking rule, after
\* them, has fired; the unknown key was dropped.
C2_Witness ==
    /\ op = "check_violations"
    /\ DOMAIN scenario = {"no_parking", "is_parked", "unknown_key"}
    /\ scenario["no_parking"] = "True"
    /\ scenario["is_parked"] = "True"
    /\ Reference(rules[1].rule, model) = "fails"
    /\ out = Returns(<<"Parking violation">>)

RuleRaised(i) == evaluate(rules[i].rule, model).raised

\* C3 as stated: a failure of a rule's evaluation that is not the
\* unbound-variable failure is surfaced to the caller of check_violations.
C3_OtherFailuresSurface ==
    op = "check_violations" =>
        ((\E i \in 1..Len(rules) : RuleRaised(i) \notin {"none", "Exception"})
            => out.raised # "none")

RulesReturningTrue ==
    {i \in 1..Len(rules) : evaluate(rules[i].rule, model) = Returns(TRUE)}

\* C3 as amended: check_violations catches every exception raised by a
\* rule's evaluation, the unbound-variable one and any other kind alike:
\* the rule gives no label, the rules after it are still evaluated, and
\* nothing is surfaced to the caller.
C3_EveryFailureIsSkipped ==
    op = "check_violations" =>
        /\ out.raised = "none"
        /\ out.value = LabelsOf(Len(rules), RulesReturningTrue)
        /\ \A i \in 1..Len(rules) :
              RuleRaised(i) # "none" =>
                  \A j \in 1..Len(out.value) : out.value[j] # rules[i].violation_msg

\* The truth test of speed_limit raises ValueError in the first two rules,
\* and the parking rule, after them, has fired.
C3_Witness ==
    /\ op = "check_violations"
    /\ DOMAIN scenario = {"speed_limit", "no_parking", "is_parked"}
    /\ scenario["speed_limit"] = "Unboolable"
    /\ RuleRaised(1) = "ValueError"
    /\ out = Returns(<<"Parking violation">>)

====
